---- MODULE Spec2Model ----
(***************************************************************************)
(* Model of the Redis-Streams work queue of src/redis/queue/queue/queue.go *)
(* (StreamPriorityQueue) together with the stream / consumer-group state   *)
(* of the Redis server its commands act on.                                *)
(*                                                                         *)
(* Entry IDs are the positions 1..Len(stream) of the stream.  One step of  *)
(* the model is one Redis command of a queue method together with the      *)
(* local code that follows it up to the next command (or the return), so   *)
(* several engine instances interleave at command boundaries.              *)
(*                                                                         *)
(* Time is counted in units of 10 seconds: Tick lets 10 s pass.            *)
(***************************************************************************)
EXTENDS Integers, Sequences, FiniteSets, TLC

VARIABLES
    stream,         \* the stream: sequence of field-value records (XADD order)
    enq,            \* history: the (item, priority, created) of every successful Enqueue
    lastDelivered,  \* the group's last-delivered-id (0: nothing delivered)
    pel,            \* the group's pending entries list: set of [id, consumer, idle, deliveries]
    acked,          \* history: ids removed from delivery tracking (XACK, or a NOACK read)
    newCount,       \* history: id -> number of times the id was delivered by a ">" read
    pc,             \* per engine instance: position in the running method
    msg,            \* per engine instance: id of the XMessage in hand (0: none)
    idleIDs,        \* per engine instance: idleMessageIDs of tryClaimPendingMessages
    streamLen,      \* per engine instance: streamLen of GetQueueInfo
    call,           \* per engine instance: the public method it is running
    last,           \* the result the latest step returned to a caller (NoResult: none)
    faults,         \* number of crashes and failed Redis commands so far
    codec           \* the codec round trip under CodecSpec

vars == <<stream, enq, lastDelivered, pel, acked, newCount, pc, msg, idleIDs,
          streamLen, call, last, faults, codec>>

-----------------------------------------------------------------------------
(* Bounds of the model *)

MaxEntries == 2
MaxFaults == 1
MaxPriority == 12
MaxForeign == 1
MaxDeliveries == 3
PageEntries == 11

(* Program constants *)

\* 30*time.Second, in units of 10 s: the filter of the pending list
IdleFilter == 3
\* XClaimArgs.MinIdle: 30*time.Second, in units of 10 s
MinIdle == 3
\* XPendingExtArgs.Count
PendingPage == 10

\* Idle times are counted up to one unit past the threshold: the code compares
\* them with the threshold only, so longer ones act alike
MaxIdle == MinIdle + 1

Procs == {"p1", "p2"}
Consumer1 == "consumer-1"
Peeker == "peeker"
Items == {"task"}
Priorities == {-1, 10}
Timestamps == {17}

\* Inputs of the codec round trip
CodecItems == {"", "task"}
CodecPriorities == (0 - MaxPriority)..MaxPriority
CodecTimestamps == {0, 9, 1700}

\* Records another producer may have appended to the stream: each lacks a field
\* Enqueue writes, or carries a priority or created that is not a decimal integer
ForeignRecords ==
    { [priority |-> <<"7">>, created |-> <<"1", "7">>],
      [item |-> "task", created |-> <<"1", "7">>],
      [item |-> "task", priority |-> <<"1", "x">>, created |-> <<"1", "7">>],
      [item |-> "task", priority |-> <<>>, created |-> <<"1", "7">>],
      [item |-> "task", priority |-> <<"7">>],
      [item |-> "task", priority |-> <<"7">>, created |-> <<"x">>] }

Min(a, b) == IF a < b THEN a ELSE b
Ids == 1..Len(stream)

-----------------------------------------------------------------------------
(* strconv: decimal strings are sequences of one-character strings *)

DigitChars == <<"0", "1", "2", "3", "4", "5", "6", "7", "8", "9">>

DigitChar(d) == DigitChars[d + 1]

IsDigit(c) == \E d \in 0..9 : DigitChars[d + 1] = c

DigitVal(c) == CHOOSE d \in 0..9 : DigitChars[d + 1] = c

RECURSIVE FormatUint(_)
FormatUint(n) ==
    IF n < 10 THEN <<DigitChar(n)>>
    ELSE FormatUint(n \div 10) \o <<DigitChar(n % 10)>>

\* A formatter that drops the sign
ItoaUnsigned(n) == IF n < 0 THEN FormatUint(0 - n) ELSE FormatUint(n)

\* strconv.Itoa / strconv.FormatInt(_, 10)
Itoa(n) == IF n < 0 THEN <<"-">> \o FormatUint(0 - n) ELSE FormatUint(n)

RECURSIVE ParseUint(_, _)
ParseUint(s, acc) ==
    IF s = <<>> THEN acc
    ELSE ParseUint(Tail(s), acc * 10 + DigitVal(Head(s)))

\* strconv.Atoi: an optional sign, then one or more decimal digits
Atoi(s) ==
    LET body == IF s # <<>> /\ Head(s) \in {"+", "-"} THEN Tail(s) ELSE s
        neg == s # <<>> /\ Head(s) = "-"
    IN  IF body = <<>> \/ \E i \in 1..Len(body) : ~IsDigit(body[i])
        THEN [ok |-> FALSE, val |-> 0]
        ELSE [ok |-> TRUE,
              val |-> IF neg THEN 0 - ParseUint(body, 0) ELSE ParseUint(body, 0)]

-----------------------------------------------------------------------------
(* Message codec *)

\* The Values map Enqueue hands to XAdd
EncodeValues(item, priority, created) ==
    [item |-> item, priority |-> Itoa(priority), created |-> Itoa(created)]

\* The extraction of processMessage and Peek: item, priority, or an error
DecodeValues(values) ==
    IF "item" \notin DOMAIN values
    THEN [err |-> "invalid item type"]
    ELSE IF "priority" \notin DOMAIN values
    THEN [err |-> "invalid priority type"]
    ELSE IF ~Atoi(values.priority).ok
    THEN [err |-> "invalid priority value"]
    ELSE [err |-> "ok", item |-> values.item,
          priority |-> Atoi(values.priority).val]

-----------------------------------------------------------------------------
(* The Redis commands, as the values they return and the state they leave *)

\* A length that counts only the entries not acknowledged
XLenUnacked == Len(stream) - Cardinality(acked)

\* XLEN: the number of entries of the stream
XLen == Len(stream)

\* XADD: the stream with the record appended under the next id
XAdd(values) == Append(stream, values)

\* A group creation that starts the group afresh also when it exists
XGroupCreateResetting(exists) ==
    [err |-> "ok", cursor |-> 0, pending |-> {}]

\* XGROUP CREATE stream group 0 MKSTREAM: the group's cursor and pending list
\* after the command.  A new group starts at 0 with nothing pending; for a
\* group that exists the server answers BUSYGROUP and changes nothing.
XGroupCreateMkStream(exists) ==
    IF exists
    THEN [err |-> "BUSYGROUP", cursor |-> lastDelivered, pending |-> pel]
    ELSE [err |-> "ok", cursor |-> 0, pending |-> {}]

\* XREADGROUP ... COUNT 1 STREAMS stream ">": is there an entry after the cursor
HasNew == lastDelivered < Len(stream)

\* A read that serves the entry of the smallest priority number among the
\* entries after the cursor, the oldest first among equals
ReadNextByPriority ==
    LET new == {i \in Ids : i > lastDelivered}
        prio(i) == Atoi(stream[i].priority).val
    IN  IF new = {} THEN lastDelivered + 1
        ELSE CHOOSE i \in new :
                 \A j \in new : prio(i) < prio(j) \/ (prio(i) = prio(j) /\ i <= j)

\* XREADGROUP ... ">": the entry it delivers, the first one after the cursor
ReadNext == lastDelivered + 1

\* XREADGROUP: the pending list after delivering id to consumer.  With NOACK
\* the server does not put the entry in the pending list.
PelAfterRead(id, consumer, noAck) ==
    IF noAck THEN pel
    ELSE pel \cup {[id |-> id, consumer |-> consumer, idle |-> 0, deliveries |-> 1]}

\* The ids no longer tracked after the read: a NOACK read counts as acknowledged
AckedAfterRead(id, noAck) == IF noAck THEN acked \cup {id} ELSE acked

PendingIds == {e.id : e \in pel}

\* XPENDING stream group: the summary's Count
XPendingSummaryCount == Cardinality(pel)

RECURSIVE SortedIds(_)
SortedIds(S) ==
    IF S = {} THEN <<>>
    ELSE LET m == CHOOSE x \in S : \A y \in S : x <= y
         IN  <<m>> \o SortedIds(S \ {m})

\* A listing that answers the last count pending ids, the newest first
XPendingExtNewestFirst(count) ==
    LET all == SortedIds(PendingIds)
        n == Min(count, Len(all))
    IN  [k \in 1..n |-> all[Len(all) + 1 - k]]

\* XPENDING stream group - + count: the first count pending ids, by id, any consumer
XPendingExt(count) ==
    LET all == SortedIds(PendingIds)
    IN  SubSeq(all, 1, Min(count, Len(all)))

PendingOf(id) == CHOOSE e \in pel : e.id = id

\* tryClaimPendingMessages, the loop: the listed ids idle for 30 s or more
IdleMessageIDs(listed) ==
    SelectSeq(listed, LAMBDA id : PendingOf(id).idle >= IdleFilter)

\* A claim that takes every pending id asked for, whatever its idle time
ClaimableAnyIdle(ids, minIdle) ==
    SelectSeq(ids, LAMBDA id : id \in PendingIds)

\* XCLAIM: of the ids asked for, those pending and idle for minIdle or more
Claimable(ids, minIdle) ==
    SelectSeq(ids, LAMBDA id : id \in PendingIds /\ PendingOf(id).idle >= minIdle)

SeqSet(s) == {s[i] : i \in 1..Len(s)}

\* A claim that adds the new owner's record and leaves the old one in place
PelAfterClaimKeepingOld(ids, consumer, minIdle) ==
    LET c == SeqSet(Claimable(ids, minIdle))
    IN  pel \cup {[id |-> e.id, consumer |-> consumer, idle |-> 0,
                   deliveries |-> Min(e.deliveries + 1, MaxDeliveries)] : e \in {x \in pel : x.id \in c}}

\* XCLAIM: the pending list after the claim: each claimed entry is owned by
\* consumer, its idle time is 0 and its delivery count one more (counted up to
\* MaxDeliveries)
PelAfterClaim(ids, consumer, minIdle) ==
    LET c == SeqSet(Claimable(ids, minIdle))
    IN  {e \in pel : e.id \notin c}
          \cup {[id |-> e.id, consumer |-> consumer, idle |-> 0,
                 deliveries |-> Min(e.deliveries + 1, MaxDeliveries)] : e \in {x \in pel : x.id \in c}}

\* An acknowledgment that leaves the entry in the pending list
PelAfterAckKeeping(id) == pel

\* XACK: the pending list without the entry
PelAfterAck(id) == {e \in pel : e.id # id}

\* XACK: the ids acknowledged so far
AckedAfterAck(id) == IF id \in PendingIds THEN acked \cup {id} ELSE acked

-----------------------------------------------------------------------------
(* Results handed to the caller *)

NoResult == [op |-> "none", err |-> "none", id |-> 0, item |-> "", priority |-> 0,
             total |-> 0, pending |-> 0]

\* (item, priority, nil); id records the entry the result was taken from
ItemResult(op, id, d) ==
    [NoResult EXCEPT !.op = op, !.err = "ok", !.id = id,
                     !.item = d.item, !.priority = d.priority]

\* ("", 0, err)
ErrResult(op, err) == [NoResult EXCEPT !.op = op, !.err = err]

\* (streamLen, pending.Count, nil)
InfoResult(total, pending) ==
    [NoResult EXCEPT !.op = "GetQueueInfo", !.err = "ok",
                     !.total = total, !.pending = pending]

-----------------------------------------------------------------------------
Init ==
    /\ stream = <<>>
    /\ enq = <<>>
    /\ lastDelivered = 0
    /\ pel = {}
    /\ acked = {}
    /\ newCount = <<>>
    /\ pc = [p \in Procs |-> "idle"]
    /\ msg = [p \in Procs |-> 0]
    /\ idleIDs = [p \in Procs |-> <<>>]
    /\ streamLen = [p \in Procs |-> 0]
    /\ call = [p \in Procs |-> "none"]
    /\ last = NoResult
    /\ faults = 0
    /\ codec = [stage |-> "off"]

\* Enqueue: one XADD of the encoded item
Enqueue(item, priority, created) ==
    /\ Len(stream) < MaxEntries
    /\ stream' = XAdd(EncodeValues(item, priority, created))
    /\ enq' = Append(enq, [item |-> item, priority |-> priority, created |-> created])
    /\ newCount' = Append(newCount, 0)
    /\ last' = NoResult
    /\ UNCHANGED <<lastDelivered, pel, acked, pc, msg, idleIDs, streamLen, call,
                   faults, codec>>

\* A delivery that leaves the group's cursor where it was
DeliverWithoutAdvancing(p) ==
    /\ lastDelivered' = lastDelivered
    /\ pel' = PelAfterRead(ReadNext, Consumer1, FALSE)
    /\ acked' = AckedAfterRead(ReadNext, FALSE)
    /\ newCount' = [newCount EXCEPT ![ReadNext] = @ + 1]
    /\ msg' = [msg EXCEPT ![p] = ReadNext]
    /\ pc' = [pc EXCEPT ![p] = "dq_msg"]

\* The XREADGROUP of Dequeue (consumer-1, no NOACK) delivering the next entry
DeliverToDequeue(p) ==
    /\ lastDelivered' = ReadNext
    /\ pel' = PelAfterRead(ReadNext, Consumer1, FALSE)
    /\ acked' = AckedAfterRead(ReadNext, FALSE)
    /\ newCount' = [newCount EXCEPT ![ReadNext] = @ + 1]
    /\ msg' = [msg EXCEPT ![p] = ReadNext]
    /\ pc' = [pc EXCEPT ![p] = "dq_msg"]

\* Dequeue is called (or DequeueWithPriority falls through to it): XREADGROUP
\* with Block 5 s delivers the next entry, or blocks when there is none
DequeueRead(p) ==
    /\ pc[p] \in {"idle", "dq_start"}
    /\ call' = [call EXCEPT ![p] = IF pc[p] = "idle" THEN "Dequeue" ELSE @]
    /\ IF HasNew
       THEN DeliverToDequeue(p)
       ELSE /\ pc' = [pc EXCEPT ![p] = "dq_blocked"]
            /\ UNCHANGED <<lastDelivered, pel, acked, newCount, msg>>
    /\ last' = NoResult
    /\ UNCHANGED <<stream, enq, idleIDs, streamLen, faults, codec>>

\* An entry arrives while the XREADGROUP of Dequeue is blocked
DequeueWake(p) ==
    /\ pc[p] = "dq_blocked"
    /\ HasNew
    /\ DeliverToDequeue(p)
    /\ last' = NoResult
    /\ UNCHANGED <<stream, enq, idleIDs, streamLen, call, faults,
                   codec>>

\* The 5 s of the blocked XREADGROUP pass: redis.Nil
DequeueTimeout(p) ==
    /\ pc[p] = "dq_blocked"
    /\ ~HasNew
    /\ pc' = [pc EXCEPT ![p] = "idle"]
    /\ call' = [call EXCEPT ![p] = "none"]
    /\ last' = ErrResult(call[p], "nil")
    /\ UNCHANGED <<stream, enq, lastDelivered, pel, acked, newCount, msg, idleIDs,
                   streamLen, faults, codec>>

\* processMessage on a value that does not decode, or whose XACK failed: Dequeue
\* returns the error; tryClaimPendingMessages returns it to DequeueWithPriority,
\* which goes on to Dequeue
ProcessError(p, err) ==
    /\ msg' = [msg EXCEPT ![p] = 0]
    /\ IF pc[p] = "dq_msg"
       THEN /\ pc' = [pc EXCEPT ![p] = "idle"]
            /\ call' = [call EXCEPT ![p] = "none"]
            /\ last' = ErrResult(call[p], err)
       ELSE /\ pc' = [pc EXCEPT ![p] = "dq_start"]
            /\ call' = call
            /\ last' = NoResult

\* A processMessage that returns the item without sending the XACK
ProcessMessageNoAck(p) ==
    /\ pc[p] \in {"dq_msg", "rc_msg"}
    /\ LET d == DecodeValues(stream[msg[p]])
       IN  IF d.err # "ok"
           THEN ProcessError(p, d.err)
           ELSE /\ pc' = [pc EXCEPT ![p] = "idle"]
                /\ call' = [call EXCEPT ![p] = "none"]
                /\ last' = ItemResult(call[p], msg[p], d)
                /\ msg' = [msg EXCEPT ![p] = 0]
    /\ UNCHANGED <<stream, enq, lastDelivered, pel, acked, newCount, idleIDs,
                   streamLen, faults, codec>>

\* processMessage: decode, print, XACK, return the item
ProcessMessage(p) ==
    /\ pc[p] \in {"dq_msg", "rc_msg"}
    /\ LET d == DecodeValues(stream[msg[p]])
       IN  IF d.err # "ok"
           THEN /\ ProcessError(p, d.err)
                /\ UNCHANGED <<pel, acked>>
           ELSE /\ pel' = PelAfterAck(msg[p])
                /\ acked' = AckedAfterAck(msg[p])
                /\ pc' = [pc EXCEPT ![p] = "idle"]
                /\ call' = [call EXCEPT ![p] = "none"]
                /\ last' = ItemResult(call[p], msg[p], d)
                /\ msg' = [msg EXCEPT ![p] = 0]
    /\ UNCHANGED <<stream, enq, lastDelivered, newCount, idleIDs, streamLen, faults,
                   codec>>

\* A processMessage that returns the item although its XACK command failed
AckFailsReturningItem(p) ==
    /\ pc[p] \in {"dq_msg", "rc_msg"}
    /\ faults < MaxFaults
    /\ DecodeValues(stream[msg[p]]).err = "ok"
    /\ faults' = faults + 1
    /\ pc' = [pc EXCEPT ![p] = "idle"]
    /\ call' = [call EXCEPT ![p] = "none"]
    /\ last' = ItemResult(call[p], msg[p], DecodeValues(stream[msg[p]]))
    /\ msg' = [msg EXCEPT ![p] = 0]
    /\ UNCHANGED <<stream, enq, lastDelivered, pel, acked, newCount, idleIDs,
                   streamLen, codec>>

\* processMessage whose XACK command fails: "failed to ack message"
AckFails(p) ==
    /\ pc[p] \in {"dq_msg", "rc_msg"}
    /\ faults < MaxFaults
    /\ DecodeValues(stream[msg[p]]).err = "ok"
    /\ faults' = faults + 1
    /\ ProcessError(p, "failed to ack message")
    /\ UNCHANGED <<stream, enq, lastDelivered, pel, acked, newCount, idleIDs,
                   streamLen, codec>>

\* DequeueWithPriority is called: tryClaimPendingMessages lists the pending
\* entries (XPENDING) and keeps the idle ones; with none it returns redis.Nil
\* and DequeueWithPriority goes on to Dequeue
ReclaimList(p) ==
    /\ pc[p] = "idle"
    /\ call' = [call EXCEPT ![p] = "DequeueWithPriority"]
    /\ LET ids == IdleMessageIDs(XPendingExt(PendingPage))
       IN  IF Len(ids) = 0
           THEN /\ pc' = [pc EXCEPT ![p] = "dq_start"]
                /\ idleIDs' = idleIDs
           ELSE /\ pc' = [pc EXCEPT ![p] = "rc_claim"]
                /\ idleIDs' = [idleIDs EXCEPT ![p] = ids]
    /\ last' = NoResult
    /\ UNCHANGED <<stream, enq, lastDelivered, pel, acked, newCount, msg, streamLen,
                   faults, codec>>

\* DequeueWithPriority is called and the XPENDING of tryClaimPendingMessages
\* fails: tryClaimPendingMessages returns the error, and DequeueWithPriority,
\* for which every error means nothing was claimed, goes on to Dequeue
ReclaimListFails(p) ==
    /\ pc[p] = "idle"
    /\ faults < MaxFaults
    /\ faults' = faults + 1
    /\ call' = [call EXCEPT ![p] = "DequeueWithPriority"]
    /\ pc' = [pc EXCEPT ![p] = "dq_start"]
    /\ last' = NoResult
    /\ UNCHANGED <<stream, enq, lastDelivered, pel, acked, newCount, msg, idleIDs,
                   streamLen, codec>>

\* The XCLAIM of tryClaimPendingMessages fails: it returns redis.Nil, and
\* DequeueWithPriority goes on to Dequeue
ReclaimClaimFails(p) ==
    /\ pc[p] = "rc_claim"
    /\ faults < MaxFaults
    /\ faults' = faults + 1
    /\ pc' = [pc EXCEPT ![p] = "dq_start"]
    /\ idleIDs' = [idleIDs EXCEPT ![p] = <<>>]
    /\ last' = NoResult
    /\ UNCHANGED <<stream, enq, lastDelivered, pel, acked, newCount, msg, streamLen,
                   call, codec>>

\* tryClaimPendingMessages: XCLAIM of the idle ids for consumer-1; the first
\* claimed message goes to processMessage, none claimed is redis.Nil
ReclaimClaim(p) ==
    /\ pc[p] = "rc_claim"
    /\ LET claimed == Claimable(idleIDs[p], MinIdle)
       IN  /\ pel' = PelAfterClaim(idleIDs[p], Consumer1, MinIdle)
           /\ IF Len(claimed) = 0
              THEN /\ pc' = [pc EXCEPT ![p] = "dq_start"]
                   /\ msg' = msg
              ELSE /\ pc' = [pc EXCEPT ![p] = "rc_msg"]
                   /\ msg' = [msg EXCEPT ![p] = claimed[1]]
    /\ idleIDs' = [idleIDs EXCEPT ![p] = <<>>]
    /\ last' = NoResult
    /\ UNCHANGED <<stream, enq, lastDelivered, acked, newCount, streamLen, call,
                   faults, codec>>

\* A Peek that reads the next entry and leaves the group's cursor before it
DeliverToPeekKeepingCursor(p) ==
    /\ lastDelivered' = lastDelivered
    /\ pel' = pel
    /\ acked' = acked
    /\ newCount' = newCount
    /\ pc' = [pc EXCEPT ![p] = "idle"]
    /\ call' = [call EXCEPT ![p] = "none"]
    /\ LET d == DecodeValues(stream[ReadNext])
       IN  last' = IF d.err = "ok" THEN ItemResult("Peek", ReadNext, d)
                   ELSE ErrResult("Peek", d.err)

\* The XREADGROUP of Peek (peeker, NOACK) delivering the next entry, and the
\* rest of Peek: decode and return
DeliverToPeek(p) ==
    /\ lastDelivered' = ReadNext
    /\ pel' = PelAfterRead(ReadNext, Peeker, TRUE)
    /\ acked' = AckedAfterRead(ReadNext, TRUE)
    /\ newCount' = [newCount EXCEPT ![ReadNext] = @ + 1]
    /\ pc' = [pc EXCEPT ![p] = "idle"]
    /\ call' = [call EXCEPT ![p] = "none"]
    /\ LET d == DecodeValues(stream[ReadNext])
       IN  last' = IF d.err = "ok" THEN ItemResult("Peek", ReadNext, d)
                   ELSE ErrResult("Peek", d.err)

\* Peek is called: XREADGROUP with Block 0, which the client sends as BLOCK 0:
\* it delivers the next entry, or waits for one without a time limit
Peek(p) ==
    /\ pc[p] = "idle"
    /\ IF HasNew
       THEN DeliverToPeek(p)
       ELSE /\ pc' = [pc EXCEPT ![p] = "pk_blocked"]
            /\ call' = [call EXCEPT ![p] = "Peek"]
            /\ last' = NoResult
            /\ UNCHANGED <<lastDelivered, pel, acked, newCount>>
    /\ UNCHANGED <<stream, enq, msg, idleIDs, streamLen, faults, codec>>

\* An entry arrives while the XREADGROUP of Peek is blocked
PeekWake(p) ==
    /\ pc[p] = "pk_blocked"
    /\ HasNew
    /\ DeliverToPeek(p)
    /\ UNCHANGED <<stream, enq, msg, idleIDs, streamLen, faults, codec>>

\* GetQueueInfo is called: XLEN
InfoLen(p) ==
    /\ pc[p] = "idle"
    /\ pc' = [pc EXCEPT ![p] = "gi_pending"]
    /\ streamLen' = [streamLen EXCEPT ![p] = XLen]
    /\ call' = [call EXCEPT ![p] = "GetQueueInfo"]
    /\ last' = NoResult
    /\ UNCHANGED <<stream, enq, lastDelivered, pel, acked, newCount, msg, idleIDs,
                   faults, codec>>

\* GetQueueInfo: XPENDING, and the return of (streamLen, pending.Count)
InfoPending(p) ==
    /\ pc[p] = "gi_pending"
    /\ pc' = [pc EXCEPT ![p] = "idle"]
    /\ call' = [call EXCEPT ![p] = "none"]
    /\ last' = InfoResult(streamLen[p], XPendingSummaryCount)
    /\ streamLen' = [streamLen EXCEPT ![p] = 0]
    /\ UNCHANGED <<stream, enq, lastDelivered, pel, acked, newCount, msg, idleIDs,
                   faults, codec>>

\* NewStreamPriorityQueue for the stream and group in use: an idle engine
\* instance is replaced by a newly constructed one.  The group exists (Init is
\* the state after the first construction); the command's error is ignored.
NewStreamPriorityQueue(p) ==
    /\ pc[p] = "idle"
    /\ LET g == XGroupCreateMkStream(TRUE)
       IN  /\ lastDelivered' = g.cursor
           /\ pel' = g.pending
    /\ last' = [NoResult EXCEPT !.op = "NewStreamPriorityQueue", !.err = "ok"]
    /\ UNCHANGED <<stream, enq, acked, newCount, pc, msg, idleIDs, streamLen, call,
                   faults, codec>>

\* An engine instance dies in the middle of a call and a fresh one takes its place
Crash(p) ==
    /\ pc[p] # "idle"
    /\ faults < MaxFaults
    /\ faults' = faults + 1
    /\ pc' = [pc EXCEPT ![p] = "idle"]
    /\ msg' = [msg EXCEPT ![p] = 0]
    /\ idleIDs' = [idleIDs EXCEPT ![p] = <<>>]
    /\ streamLen' = [streamLen EXCEPT ![p] = 0]
    /\ call' = [call EXCEPT ![p] = "none"]
    /\ last' = NoResult
    /\ UNCHANGED <<stream, enq, lastDelivered, pel, acked, newCount, codec>>

\* 10 s pass: every pending entry is idle 10 s longer (counted up to MaxIdle)
Tick ==
    /\ pel # {}
    /\ pel' = {[e EXCEPT !.idle = Min(e.idle + 1, MaxIdle)] : e \in pel}
    /\ last' = NoResult
    /\ UNCHANGED <<stream, enq, lastDelivered, acked, newCount, pc, msg, idleIDs,
                   streamLen, call, faults, codec>>

Next ==
    \/ \E i \in Items, pr \in Priorities, t \in Timestamps : Enqueue(i, pr, t)
    \/ \E p \in Procs : DequeueRead(p)
    \/ \E p \in Procs : DequeueWake(p)
    \/ \E p \in Procs : DequeueTimeout(p)
    \/ \E p \in Procs : ProcessMessage(p)
    \/ \E p \in Procs : AckFails(p)
    \/ \E p \in Procs : ReclaimList(p)
    \/ \E p \in Procs : ReclaimClaim(p)
    \/ \E p \in Procs : ReclaimListFails(p)
    \/ \E p \in Procs : ReclaimClaimFails(p)
    \/ \E p \in Procs : Peek(p)
    \/ \E p \in Procs : PeekWake(p)
    \/ \E p \in Procs : InfoLen(p)
    \/ \E p \in Procs : InfoPending(p)
    \/ \E p \in Procs : Crash(p)
    \/ Tick

Spec == Init /\ [][Next]_vars

-----------------------------------------------------------------------------
(* The queue with a server that answers, time that passes, and engine       *)
(* instances that go on with a call once it has started: a blocked read is  *)
(* woken or times out, and every step between two commands of a call is     *)
(* taken.  Which calls are made, and when, is left to the callers.          *)

FairSpec ==
    /\ Init
    /\ [][Next]_vars
    /\ WF_vars(Tick)
    /\ \A p \in Procs :
          /\ WF_vars(pc[p] = "dq_start" /\ DequeueRead(p))
          /\ WF_vars(DequeueWake(p))
          /\ WF_vars(DequeueTimeout(p))
          /\ WF_vars(ProcessMessage(p))
          /\ WF_vars(ReclaimClaim(p))
          /\ WF_vars(PeekWake(p))
          /\ WF_vars(InfoPending(p))

-----------------------------------------------------------------------------
(* The queue with engine instances constructed while others are at work     *)
(* (GetQueueInfo, which only reads, is left out)                            *)

RestartNext ==
    \/ \E i \in Items, pr \in Priorities, t \in Timestamps : Enqueue(i, pr, t)
    \/ \E p \in Procs : DequeueRead(p)
    \/ \E p \in Procs : DequeueWake(p)
    \/ \E p \in Procs : DequeueTimeout(p)
    \/ \E p \in Procs : ProcessMessage(p)
    \/ \E p \in Procs : AckFails(p)
    \/ \E p \in Procs : ReclaimList(p)
    \/ \E p \in Procs : ReclaimClaim(p)
    \/ \E p \in Procs : ReclaimListFails(p)
    \/ \E p \in Procs : ReclaimClaimFails(p)
    \/ \E p \in Procs : Peek(p)
    \/ \E p \in Procs : PeekWake(p)
    \/ \E p \in Procs : Crash(p)
    \/ Tick
    \/ \E p \in Procs : NewStreamPriorityQueue(p)

RestartSpec == Init /\ [][RestartNext]_vars

-----------------------------------------------------------------------------
(* The codec on its own: an item is encoded as Enqueue encodes it, and the  *)
(* record is decoded as processMessage and Peek decode it                   *)

CodecInit ==
    /\ stream = <<>>
    /\ enq = <<>>
    /\ lastDelivered = 0
    /\ pel = {}
    /\ acked = {}
    /\ newCount = <<>>
    /\ pc = [p \in Procs |-> "idle"]
    /\ msg = [p \in Procs |-> 0]
    /\ idleIDs = [p \in Procs |-> <<>>]
    /\ streamLen = [p \in Procs |-> 0]
    /\ call = [p \in Procs |-> "none"]
    /\ last = NoResult
    /\ faults = 0
    /\ \E i \in CodecItems, pr \in CodecPriorities, t \in CodecTimestamps :
          codec = [stage |-> "input",
                   q |-> [item |-> i, priority |-> pr, created |-> t]]

CodecEncode ==
    /\ codec.stage = "input"
    /\ codec' = [stage |-> "encoded", q |-> codec.q,
                 values |-> EncodeValues(codec.q.item, codec.q.priority,
                                         codec.q.created)]
    /\ UNCHANGED <<stream, enq, lastDelivered, pel, acked, newCount, pc, msg, idleIDs,
                   streamLen, call, last, faults>>

CodecDecode ==
    /\ codec.stage = "encoded"
    /\ codec' = [stage |-> "decoded", q |-> codec.q, values |-> codec.values,
                 out |-> DecodeValues(codec.values)]
    /\ UNCHANGED <<stream, enq, lastDelivered, pel, acked, newCount, pc, msg, idleIDs,
                   streamLen, call, last, faults>>

CodecNext == CodecEncode \/ CodecDecode

CodecSpec == CodecInit /\ [][CodecNext]_vars

-----------------------------------------------------------------------------
(* One engine instance on a stream another producer appends to: the records *)
(* the engine reads are not records Enqueue wrote                           *)

ForeignProcs == {"p1"}

\* XADD by a producer other than Enqueue
ForeignAdd(values) ==
    /\ Len(stream) < MaxForeign
    /\ stream' = XAdd(values)
    /\ newCount' = Append(newCount, 0)
    /\ last' = NoResult
    /\ UNCHANGED <<enq, lastDelivered, pel, acked, pc, msg, idleIDs, streamLen, call,
                   faults, codec>>

ForeignNext ==
    \/ \E r \in ForeignRecords : ForeignAdd(r)
    \/ \E p \in ForeignProcs : DequeueRead(p)
    \/ \E p \in ForeignProcs : DequeueWake(p)
    \/ \E p \in ForeignProcs : DequeueTimeout(p)
    \/ \E p \in ForeignProcs : ProcessMessage(p)
    \/ \E p \in ForeignProcs : AckFails(p)
    \/ \E p \in ForeignProcs : ReclaimList(p)
    \/ \E p \in ForeignProcs : ReclaimClaim(p)
    \/ \E p \in ForeignProcs : ReclaimListFails(p)
    \/ \E p \in ForeignProcs : ReclaimClaimFails(p)
    \/ \E p \in ForeignProcs : Peek(p)
    \/ \E p \in ForeignProcs : PeekWake(p)
    \/ \E p \in ForeignProcs : InfoLen(p)
    \/ \E p \in ForeignProcs : InfoPending(p)
    \/ \E p \in ForeignProcs : Crash(p)
    \/ Tick

ForeignSpec == Init /\ [][ForeignNext]_vars

-----------------------------------------------------------------------------
(* Reclaiming from a pending list longer than the page XPENDING is asked    *)
(* for: PageEntries entries were delivered to Dequeue calls that did not    *)
(* acknowledge them, a run of them 30 s ago or more, the others later       *)

PageProcs == {"p1"}

PageInit ==
    /\ stream = [i \in 1..PageEntries |-> EncodeValues("task", 10, 17)]
    /\ enq = [i \in 1..PageEntries |-> [item |-> "task", priority |-> 10, created |-> 17]]
    /\ lastDelivered = PageEntries
    /\ \E a \in 1..(PageEntries + 1), b \in 0..PageEntries :
          pel = {[id |-> i, consumer |-> Consumer1,
                  idle |-> IF i \in a..b THEN IdleFilter ELSE IdleFilter - 1,
                  deliveries |-> 1] : i \in 1..PageEntries}
    /\ acked = {}
    /\ newCount = [i \in 1..PageEntries |-> 1]
    /\ pc = [p \in Procs |-> "idle"]
    /\ msg = [p \in Procs |-> 0]
    /\ idleIDs = [p \in Procs |-> <<>>]
    /\ streamLen = [p \in Procs |-> 0]
    /\ call = [p \in Procs |-> "none"]
    /\ last = NoResult
    /\ faults = 0
    /\ codec = [stage |-> "off"]

PageNext ==
    \/ \E p \in PageProcs : ReclaimList(p)
    \/ \E p \in PageProcs : ReclaimClaim(p)
    \/ \E p \in PageProcs : ProcessMessage(p)
    \/ \E p \in PageProcs : DequeueRead(p)
    \/ \E p \in PageProcs : DequeueTimeout(p)
    \/ Tick

PageSpec == PageInit /\ [][PageNext]_vars

-----------------------------------------------------------------------------
(* Steps and results the properties speak about *)

\* The XREADGROUP of a Dequeue delivers an entry to p in this step
DequeueDelivers(p) ==
    pc[p] \in {"idle", "dq_start", "dq_blocked"} /\ pc'[p] = "dq_msg"

\* The Dequeue of p returns an item in this step
DequeueReturnsItem(p) ==
    pc[p] = "dq_msg" /\ pc'[p] = "idle" /\ last'.err = "ok"

\* The XCLAIM of p's tryClaimPendingMessages is executed in this step
ClaimStep(p) ==
    pc[p] = "rc_claim" /\ pc'[p] \in {"dq_start", "rc_msg"} /\ faults' = faults

\* DequeueWithPriority is called and its XPENDING answers in this step
ListStep(p) ==
    pc[p] = "idle" /\ pc'[p] \in {"rc_claim", "dq_start"} /\ faults' = faults

\* Peek returns an item in this step
PeekReturnsItem == last'.op = "Peek" /\ last'.err = "ok"

-----------------------------------------------------------------------------
(* C1: FIFO delivery.  Every Dequeue is delivered the oldest entry no read  *)
(* has delivered before (so a Dequeue called after another has returned     *)
(* gets a later entry, whatever the priorities), and the item and priority  *)
(* it returns are those the entry was enqueued with.                        *)
C1_FifoDelivery ==
    [][\A p \in Procs :
          /\ DequeueDelivers(p) =>
                /\ newCount[msg'[p]] = 0
                /\ \A i \in 1..(msg'[p] - 1) : newCount[i] >= 1
          /\ DequeueReturnsItem(p) =>
                /\ last'.id = msg[p]
                /\ last'.item = enq[msg[p]].item
                /\ last'.priority = enq[msg[p]].priority]_vars

\* The second entry, enqueued with the smaller priority number, is returned by
\* a Dequeue after the first one was returned and acknowledged
C1_Witness ==
    /\ last.op = "Dequeue" /\ last.err = "ok" /\ last.id = 2
    /\ acked = {1, 2}
    /\ enq[2].priority < enq[1].priority

(* C2: no duplicate fresh delivery.  Every entry is delivered by a ">" read *)
(* at most once, and two engine instances never hold the same entry from    *)
(* the reads of their Dequeue calls.                                        *)
C2_NoDuplicateFreshDelivery ==
    /\ \A i \in Ids : newCount[i] <= 1
    /\ \A p, q \in Procs :
          (p # q /\ pc[p] = "dq_msg" /\ pc[q] = "dq_msg") => msg[p] # msg[q]

\* Two engine instances are in Dequeue at once, each with an entry of its own
C2_Witness ==
    /\ \A p \in Procs : pc[p] = "dq_msg"
    /\ \E p, q \in Procs : msg[p] = 1 /\ msg[q] = 2

AckedStaysOutOfPending ==
    \A i \in acked : i \in acked' /\ i \notin {e.id : e \in pel'}

AckedNeverDelivered ==
    /\ \A p \in Procs : (msg'[p] # 0 /\ msg'[p] # msg[p]) => msg'[p] \notin acked
    /\ PeekReturnsItem => last'.id \notin acked

AckedNeverReturned ==
    (last'.err = "ok" /\ last'.op \in {"Dequeue", "DequeueWithPriority", "Peek"})
        => last'.id \notin acked

C4_AckedNeverReturnedAgain ==
    [][AckedStaysOutOfPending /\ AckedNeverDelivered /\ AckedNeverReturned]_vars

(* C4, amended: an acknowledged entry stays acknowledged, never re-enters   *)
(* the pending list and is never delivered again by a read or a claim (an   *)
(* XCLAIM for an acknowledged id claims nothing).                           *)
C4_AckTerminal ==
    [][AckedStaysOutOfPending /\ AckedNeverDelivered]_vars

\* A reclaim has listed an entry as idle, it was acknowledged by another
\* instance since, and the reclaim is about to issue its XCLAIM for it
C4_Witness ==
    \E p \in Procs :
        /\ pc[p] = "rc_claim"
        /\ \E k \in 1..Len(idleIDs[p]) : idleIDs[p][k] \in acked

(* C5: the reclaim selects and claims only entries whose idle time exceeds  *)
(* the threshold, at the listing and at the claim.                          *)
C5_OnlyBeyondThreshold ==
    [][\A p \in Procs :
          /\ (pc[p] = "idle" /\ pc'[p] = "rc_claim") =>
                \A k \in 1..Len(idleIDs'[p]) :
                    PendingOf(idleIDs'[p][k]).idle > IdleFilter
          /\ (ClaimStep(p) /\ pc'[p] = "rc_msg") =>
                PendingOf(msg'[p]).idle > MinIdle]_vars

(* C6: as claimed, two reclaims never both process the same entry.          *)
C6_NeverBothProcess ==
    \A p, q \in Procs :
        (p # q /\ pc[p] = "rc_msg" /\ pc[q] = "rc_msg") => msg[p] # msg[q]

(* C6, amended: an XCLAIM takes exactly the ids asked for that are pending  *)
(* and idle for the threshold or more; each of them gets consumer-1 as      *)
(* owner, idle time 0 and one more delivery; every other id asked for is    *)
(* left as it was and is not obtained, in particular one that another       *)
(* reclaim claimed less than the threshold ago.  A reclaim takes an entry   *)
(* another reclaim is processing only when that one has held it for the     *)
(* threshold or more.                                                       *)
C6_ClaimTransfers ==
    [][\A p \in Procs : ClaimStep(p) =>
          /\ \A k \in 1..Len(idleIDs[p]) :
                LET i == idleIDs[p][k]
                IN  IF i \in PendingIds /\ PendingOf(i).idle >= MinIdle
                    THEN /\ [id |-> i, consumer |-> Consumer1, idle |-> 0,
                             deliveries |-> Min(PendingOf(i).deliveries + 1, MaxDeliveries)]
                                \in pel'
                         /\ pc'[p] = "rc_msg"
                    ELSE /\ msg'[p] # i
                         /\ {e \in pel' : e.id = i} = {e \in pel : e.id = i}
          /\ \A q \in Procs \ {p} :
                (pc[q] = "rc_msg" /\ pc'[p] = "rc_msg" /\ msg'[p] = msg[q])
                    => PendingOf(msg[q]).idle >= MinIdle]_vars

\* One reclaim has claimed an entry (idle time 0, second delivery) and has it
\* in hand; another, which listed the same entry, is about to issue its XCLAIM
C6_Witness ==
    \E p, q \in Procs :
        /\ pc[p] = "rc_msg" /\ pc[q] = "rc_claim"
        /\ \E k \in 1..Len(idleIDs[q]) : idleIDs[q][k] = msg[p]
        /\ [id |-> msg[p], consumer |-> Consumer1, idle |-> 0, deliveries |-> 2] \in pel

(* C7: after Peek returns an item the entry is pending, owned by the peek   *)
(* consumer, not acknowledged, and the pending count is one more than       *)
(* before the call.                                                         *)
C7_PeekLeavesPending ==
    [][PeekReturnsItem =>
          /\ \E e \in pel' : e.id = last'.id /\ e.consumer = Peeker
          /\ last'.id \notin acked'
          /\ Cardinality(pel') = Cardinality(pel) + 1]_vars

(* C8: the total GetQueueInfo reads (XLEN) equals the number of successful  *)
(* Enqueue calls in every state, whatever was delivered, claimed or         *)
(* acknowledged; a total already read is at most that number.               *)
C8_TotalEntries ==
    /\ XLen = Len(enq)
    /\ \A p \in Procs : pc[p] = "gi_pending" => streamLen[p] <= Len(enq)
    /\ last.op = "GetQueueInfo" => last.total <= Len(enq)

\* GetQueueInfo returns total 2 after one entry was acknowledged and while
\* the other is pending
C8_Witness ==
    /\ last.op = "GetQueueInfo" /\ last.total = 2 /\ last.pending = 1
    /\ acked # {} /\ pel # {}

(* C9: a Peek or Dequeue that finds no entry after the cursor can return    *)
(* redis.Nil by a step of its own, without any Enqueue, leaving the pending *)
(* list and the cursor as they are.                                         *)
C9_EmptyReadReturns ==
    \A p \in Procs :
        (pc[p] \in {"dq_blocked", "pk_blocked"} /\ ~HasNew) =>
            ENABLED (/\ Next
                     /\ pc'[p] = "idle"
                     /\ last'.err = "nil"
                     /\ pel' = pel
                     /\ lastDelivered' = lastDelivered)

DecimalString(s) ==
    LET body == IF s # <<>> /\ Head(s) \in {"+", "-"} THEN Tail(s) ELSE s
    IN  body # <<>> /\ \A i \in 1..Len(body) : \E d \in 0..9 : body[i] = DigitChar(d)

WellFormedRecord(r) ==
    /\ {"item", "priority", "created"} \subseteq DOMAIN r
    /\ DecimalString(r.priority)
    /\ DecimalString(r.created)

DecodeErrors == {"invalid item type", "invalid priority type", "invalid priority value"}

\* processMessage of p runs to its end in this step (no crash, no failed XACK)
ProcessStep(p) == pc[p] \in {"dq_msg", "rc_msg"} /\ pc'[p] # pc[p] /\ faults' = faults

C11_RejectsMalformed ==
    [][/\ \A p \in Procs :
             (ProcessStep(p) /\ ~WellFormedRecord(stream[msg[p]])) =>
                 (pc'[p] = "idle" /\ last'.err \in DecodeErrors)
       /\ (last'.op = "Peek" /\ ~WellFormedRecord(stream[lastDelivered'])) =>
             last'.err \in DecodeErrors]_vars

(* C12: errors are never swallowed.  As claimed: a failure on the reclaim   *)
(* path of DequeueWithPriority (the XPENDING or the XCLAIM fails, the       *)
(* claimed record does not decode, its XACK fails) is the outcome of the    *)
(* call, so the call goes on to Dequeue only when the listing or the claim  *)
(* found nothing, without a failure; and a decoding error or a failed XACK  *)
(* in Dequeue is the error Dequeue returns.                                 *)
C12_ErrorsPropagate ==
    [][\A p \in Procs :
          /\ (pc[p] # "dq_start" /\ pc'[p] = "dq_start") =>
                (faults' = faults /\ pc[p] \in {"idle", "rc_claim"})
          /\ (pc[p] = "dq_msg" /\ pc'[p] = "idle" /\ last' # NoResult) =>
                \/ last'.err = "ok" /\ faults' = faults
                \/ last'.err \in DecodeErrors /\ faults' = faults
                \/ last'.err = "failed to ack message" /\ faults' = faults + 1]_vars

(* C13: one reclaim consumes one entry.  As claimed: the XCLAIM of a        *)
(* reclaim changes the pending record of no entry but the one it goes on to *)
(* process: every other pending entry keeps its owner, its delivery count   *)
(* and its idle time, and so stays reclaimable by the next reclaim.         *)
C13_OthersUntouched ==
    [][\A p \in Procs : ClaimStep(p) =>
          \A e \in pel : e.id # msg'[p] => e \in pel']_vars

(* C14: receive-and-complete.  As claimed: whenever a Dequeue returns to    *)
(* its caller, with any outcome, the entry it was delivered is not pending. *)
C14_ReturnedMeansNotPending ==
    [][\A p \in Procs :
          (pc[p] = "dq_msg" /\ pc'[p] = "idle" /\ last' # NoResult) =>
              msg[p] \notin {e.id : e \in pel'}]_vars

(* C14, amended: whenever a Dequeue returns an item, the entry it was       *)
(* delivered is acknowledged and not pending.  A Dequeue that was delivered *)
(* an entry ends without acknowledging it in three ways only, each leaving  *)
(* the pending list as it was: it returns a decoding error, it returns      *)
(* "failed to ack message" after its XACK failed, or the instance crashes   *)
(* between the delivery and the acknowledgment.                             *)
C14_ReceiveAndComplete ==
    [][\A p \in Procs : (pc[p] = "dq_msg" /\ pc'[p] # "dq_msg") =>
          /\ pc'[p] = "idle"
          /\ \/ /\ last'.err = "ok" /\ last'.id = msg[p]
                /\ msg[p] \notin {e.id : e \in pel'}
                /\ msg[p] \in acked'
             \/ /\ last'.err \in DecodeErrors
                /\ pel' = pel /\ acked' = acked /\ faults' = faults
             \/ /\ last'.err = "failed to ack message"
                /\ pel' = pel /\ acked' = acked /\ faults' = faults + 1
             \/ /\ last' = NoResult
                /\ pel' = pel /\ acked' = acked /\ faults' = faults + 1]_vars

\* A Dequeue has returned the second entry, acknowledged, while the first one
\* is still pending from a Dequeue that ended without acknowledging it
C14_Witness ==
    /\ last.op = "Dequeue" /\ last.err = "ok" /\ last.id = 2
    /\ 2 \in acked
    /\ PendingIds = {1}
    /\ faults = 1

(* C15: a malformed entry is not discarded.  As claimed: when processMessage *)
(* of a Dequeue or of a DequeueWithPriority has in hand a record that fails *)
(* to decode, the call returns the decoding error in that step, and the     *)
(* entry is not acknowledged: it stays pending, owned by consumer-1.        *)
C15_MalformedReturnedAndKept ==
    [][\A p \in Procs :
          (ProcessStep(p) /\ DecodeValues(stream[msg[p]]).err # "ok") =>
              /\ pc'[p] = "idle"
              /\ last'.err = DecodeValues(stream[msg[p]]).err
              /\ msg[p] \notin acked'
              /\ \E e \in pel' : e.id = msg[p] /\ e.consumer = Consumer1]_vars

(* C16: a failed acknowledgment.  When the XACK of a Dequeue fails, the     *)
(* Dequeue returns "failed to ack message", with no item, and leaves the    *)
(* pending list as it was: the entry stays pending, owned by consumer-1.    *)
(* Every pending entry idle for the threshold or more (among the first      *)
(* PendingPage pending ids) is listed by the next DequeueWithPriority, and  *)
(* its XCLAIM delivers such an entry again.                                 *)
C16_AckFailedKeepsPending ==
    [][\A p \in Procs :
          /\ (pc[p] = "dq_msg" /\ pc'[p] # "dq_msg" /\ faults' # faults
                 /\ last' # NoResult) =>
                /\ last' = ErrResult(call[p], "failed to ack message")
                /\ pc'[p] = "idle"
                /\ pel' = pel /\ acked' = acked
                /\ \A e \in pel : e.id = msg[p] => e.consumer = Consumer1
          /\ (pc[p] = "dq_msg" /\ pc'[p] # "dq_msg" /\ last'.err = "ok") =>
                (faults' = faults /\ msg[p] \notin {e.id : e \in pel'})
          /\ (ListStep(p) /\ Cardinality(pel) <= PendingPage) =>
                \A e \in pel : e.idle >= IdleFilter =>
                    \E k \in 1..Len(idleIDs'[p]) : idleIDs'[p][k] = e.id
          /\ (ClaimStep(p) /\ \E k \in 1..Len(idleIDs[p]) :
                   \E e \in pel : e.id = idleIDs[p][k] /\ e.idle >= MinIdle) =>
                (pc'[p] = "rc_msg" /\ \E e \in pel : e.id = msg'[p] /\ e.idle >= MinIdle)]_vars

\* A Dequeue has just returned "failed to ack message" and the entry it was
\* delivered is pending, delivered once, owned by consumer-1
C16_Witness ==
    /\ last.op = "Dequeue" /\ last.err = "failed to ack message"
    /\ [id |-> 1, consumer |-> Consumer1, idle |-> 0, deliveries |-> 1] \in pel
    /\ acked = {}

(* C17: reclaim order.  The page is the PendingPage pending entries of the  *)
(* smallest ids, whoever owns them.  A DequeueWithPriority lists the        *)
(* entries of the page idle for the threshold or more, in increasing id     *)
(* order, and with none of them goes on to Dequeue (the reclaim signals     *)
(* redis.Nil), also when an entry beyond the page is idle.  Its XCLAIM      *)
(* hands to processMessage the smallest listed id that is pending and idle  *)
(* for the threshold or more, and with no such id the reclaim signals       *)
(* redis.Nil.  The item a reclaim returns is that of the entry in hand.     *)
ExaminedPage ==
    {i \in PendingIds : Cardinality({j \in PendingIds : j < i}) < PendingPage}

IdleEligible(S, threshold) ==
    {i \in S : \E e \in pel : e.id = i /\ e.idle >= threshold}

C17_ReclaimOrder ==
    [][\A p \in Procs :
          /\ ListStep(p) =>
                /\ SeqSet(idleIDs'[p]) = IdleEligible(ExaminedPage, IdleFilter)
                /\ \A j, k \in 1..Len(idleIDs'[p]) :
                      j < k => idleIDs'[p][j] < idleIDs'[p][k]
                /\ (pc'[p] = "dq_start") <=> (IdleEligible(ExaminedPage, IdleFilter) = {})
          /\ ClaimStep(p) =>
                LET c == IdleEligible(SeqSet(idleIDs[p]), MinIdle)
                IN  IF c = {} THEN pc'[p] = "dq_start"
                    ELSE /\ pc'[p] = "rc_msg"
                         /\ msg'[p] \in c
                         /\ \A i \in c : msg'[p] <= i
          /\ (pc[p] = "rc_msg" /\ pc'[p] = "idle" /\ last'.err = "ok") =>
                (last'.op = "DequeueWithPriority" /\ last'.id = msg[p])]_vars

\* A reclaim has returned the last entry of the page, the only one of the page
\* that was idle for 30 s, while an entry beyond the page is pending
C17_Witness ==
    /\ last.op = "DequeueWithPriority" /\ last.err = "ok" /\ last.id = PendingPage
    /\ PendingIds = (1..PageEntries) \ {PendingPage}
    /\ acked = {PendingPage}

(* C18: group creation is idempotent.  Constructing an engine for the       *)
(* stream and group in use reports no error and leaves the group's cursor,  *)
(* its pending list (ids, owners, delivery counts, idle times), the         *)
(* acknowledged entries and the stream as they were; the cursor never moves *)
(* back, and no entry is delivered as new a second time.                    *)
C18_GroupCreateIdempotent ==
    [][/\ last'.op = "NewStreamPriorityQueue" =>
             /\ last'.err = "ok"
             /\ lastDelivered' = lastDelivered
             /\ pel' = pel
             /\ acked' = acked
             /\ stream' = stream
       /\ lastDelivered' >= lastDelivered
       /\ \A i \in 1..Len(stream') : newCount'[i] <= 1]_vars

\* An engine was constructed while both entries had been delivered, one of
\* them acknowledged and the other pending after a claim, and while the
\* other instance was in the middle of a call
C18_Witness ==
    /\ last.op = "NewStreamPriorityQueue"
    /\ lastDelivered = 2
    /\ acked # {}
    /\ \E e \in pel : e.deliveries = 2
    /\ \E p \in Procs : pc[p] # "idle"

(* C19: no lost items.  As claimed: if some engine instance calls           *)
(* DequeueWithPriority again and again, every entry of the stream is        *)
(* eventually processed and acknowledged, that is, returned as an item by a *)
(* Dequeue or a DequeueWithPriority (processMessage returns the item in the *)
(* step of its successful XACK), also after crashes and after a Peek.       *)
Processed(i) ==
    last.err = "ok" /\ last.id = i /\ last.op \in {"Dequeue", "DequeueWithPriority"}

C19_NoLostItems ==
    (\E p \in Procs : []<><<ReclaimList(p)>>_vars) =>
        \A i \in 1..MaxEntries : <>(Len(stream) >= i) => <>Processed(i)

====
